---- MODULE Spec2Model ----
(***************************************************************************)
(* Model of server.js: the socket.io session coordinator of the dice game. *)
(* The three containers of the server (players, socketToRole, readySet)    *)
(* are the state; each socket.io handler is one atomic action, since the   *)
(* handlers are synchronous and Node runs them to completion one at a      *)
(* time.  The variable out holds, in emission order, the messages the last *)
(* handler emitted; last names that handler, the socket it ran for and the *)
(* role it handled (the payload's, or the one disconnect looked up); pre   *)
(* holds the containers as they were when that handler started.            *)
(*                                                                         *)
(* Role names and message texts of the source are Chinese strings; they    *)
(* are transliterated here (pinyin for the roles, an ASCII tag for each    *)
(* message text) because the module is ASCII.                              *)
(***************************************************************************)
EXTENDS Naturals, Integers, Sequences, FiniteSets, TLC

VARIABLES
    sockets,      \* ids of the sockets connected to the io namespace
    created,      \* number of sockets ever connected (ids are 1..created)
    players,      \* Map role -> {socketId, role}, in insertion order
    socketToRole, \* Map socketId -> role
    readySet,     \* Set of the roles that clicked "roll" in this round
    out,          \* messages emitted by the last handler, in order
    last,         \* the last handler run: [op, socket, role]
    pre           \* the containers when the last handler started

vars == <<sockets, created, players, socketToRole, readySet, out, last, pre>>

----------------------------------------------------------------------------
(* Bounds of the model *)

\* Sockets that connect in one run (socket.io itself has no limit).
MaxSockets == 3

\* The roles of FIXED_ROLES that clients ask for: the first MaxRoleInputs.
MaxRoleInputs == 3

\* Math.random() returns a float in [0,1); a return value is modelled by
\* its numerator n over RandScale, for n in 0..RandScale-1.
RandScale == 12

\* The runs of five consecutive Math.random() results a call of
\* generateDicePoints may see (numerators over RandScale).
RandomRuns == { <<0, 3, 6, 9, 11>>, <<11, 1, 5, 7, 2>> }

----------------------------------------------------------------------------
(* Program constants *)

\* server.js:28 (names transliterated)
FIXED_ROLES == <<"Jianguang", "Jianguo", "Lichuan", "Kaining", "Hongxiao">>

\* server.js:33  Array.from({ length: 5 }, ...)
NumDice == 5

\* server.js:33  Math.random() * 6
NumFaces == 6

\* Message texts of server.js:71, 77, 83 and 106
MsgInvalidRole    == "InvalidRole"
MsgRoleTaken      == "RoleTaken"
MsgAlreadyClaimed == "AlreadyClaimed"
MsgNotOwner       == "NotOwner"

\* A role name that is not in FIXED_ROLES, as a client may send one.
UnknownRole == "Stranger"

\* The argument of a selectRole or playerReady that a client emits with no
\* payload (undefined) or with null.
NoPayload == "null"

\* The payloads a client sends in selectRole and playerReady: an object
\* with a role (named here by the role), or no object at all.
RoleInputs ==
    { FIXED_ROLES[i] : i \in { k \in 1..Len(FIXED_ROLES) : k <= MaxRoleInputs } }
    \cup { UnknownRole, NoPayload }

NoRole == "-"

----------------------------------------------------------------------------
(* Helpers: the JavaScript containers *)

Range(seq) == { seq[i] : i \in 1..Len(seq) }

\* FIXED_ROLES.includes(role)
Includes(roles, role) == \E i \in 1..Len(roles) : roles[i] = role

\* players.has(role)
PlayersHas(ps, role) == \E i \in 1..Len(ps) : ps[i].role = role

\* players.get(role), for a role players has
PlayersGet(ps, role) == ps[CHOOSE i \in 1..Len(ps) : ps[i].role = role]

\* Variant of PlayersSet: the new entry is put first.
PlayersSetFront(ps, role, player) == << player >> \o ps

\* players.set(role, player), for a role players has not: appended last
PlayersSet(ps, role, player) == Append(ps, player)

\* players.delete(role): the other entries keep their order
PlayersDelete(ps, role) == SelectSeq(ps, LAMBDA p : p.role # role)

\* Array.from(players.keys())
OnlineRoles(ps) == [i \in 1..Len(ps) |-> ps[i].role]

\* Variant of MapSet: socketToRole.set is forgotten.
MapSetNone(m, k, v) == m

\* socketToRole.set(socket.id, role)
MapSet(m, k, v) == [x \in (DOMAIN m) \cup {k} |-> IF x = k THEN v ELSE m[x]]

\* socketToRole.delete(socket.id)
MapDelete(m, k) == [x \in (DOMAIN m) \ {k} |-> m[x]]

\* The parameter ({ role }) of the selectRole and playerReady handlers: the
\* destructuring succeeds on an object and throws a TypeError on undefined
\* and on null, before the first statement of the handler.
Destructures(payload) == payload # NoPayload

\* The record of a handler run kept in last.
Handled(op, s, role) == [op |-> op, socket |-> s, role |-> role]

\* The containers of the server, as pre records them.
Containers ==
    [sockets |-> sockets, created |-> created, players |-> players,
     socketToRole |-> socketToRole, readySet |-> readySet]

\* One emitted message: the event, the sockets it is sent to, the payload.
Msg(event, to, body) == [event |-> event, to |-> to, body |-> body]

----------------------------------------------------------------------------
(* Helper functions of server.js *)

\* generateDicePoints, on a run of five Math.random() results:
\* Math.floor(Math.random() * 6) + 1 for each of the five dice.
GenerateDicePoints(run) ==
    [i \in 1..NumDice |-> ((run[i] * NumFaces) \div RandScale) + 1]

\* broadcastPlayers: io.emit('playersUpdate', playerList) to every
\* connected socket.
BroadcastPlayers(ps, conns) ==
    Msg("playersUpdate", conns, [i \in 1..Len(ps) |-> [role |-> ps[i].role]])

\* Variant of AllReady: "some" online role is ready instead of "every".
AllReadyAny(onlineRoles, rs) ==
    /\ Len(onlineRoles) > 0
    /\ \E i \in 1..Len(onlineRoles) : onlineRoles[i] \in rs

\* tryStartRoll, the condition allReady.
AllReady(onlineRoles, rs) ==
    /\ Len(onlineRoles) > 0
    /\ \A i \in 1..Len(onlineRoles) : onlineRoles[i] \in rs

\* tryStartRoll, roundPoints: one generateDicePoints per online role.
RoundPoints(onlineRoles, runs) ==
    [r \in Range(onlineRoles) |-> GenerateDicePoints(runs[r])]

\* tryStartRoll, the Math.random() results it consumes: a run per online
\* role when the roll starts, none otherwise.
RunChoices(onlineRoles, rs) ==
    IF AllReady(onlineRoles, rs)
    THEN [Range(onlineRoles) -> RandomRuns]
    ELSE { << >> }

\* Variant of TryStartRollOut: io.emit('startRoll') is inside the forEach,
\* so it is emitted once per online role.
TryStartRollOutPerRole(onlineRoles, rs, runs, conns) ==
    IF AllReady(onlineRoles, rs)
    THEN [i \in 1..Len(onlineRoles) |->
            Msg("startRoll", conns, [roundPoints |-> RoundPoints(onlineRoles, runs)])]
    ELSE << >>

\* tryStartRoll, the messages it emits: io.emit('startRoll', { roundPoints }).
TryStartRollOut(onlineRoles, rs, runs, conns) ==
    IF AllReady(onlineRoles, rs)
    THEN << Msg("startRoll", conns, [roundPoints |-> RoundPoints(onlineRoles, runs)]) >>
    ELSE << >>

\* Variant of TryStartRollReady: readySet.clear() is forgotten.
TryStartRollReadyKeep(onlineRoles, rs) == rs

\* tryStartRoll, readySet after it: readySet.clear() when the roll starts.
TryStartRollReady(onlineRoles, rs) ==
    IF AllReady(onlineRoles, rs) THEN {} ELSE rs

----------------------------------------------------------------------------
(* Handlers *)

Init ==
    /\ sockets = {}
    /\ created = 0
    /\ players = << >>
    /\ socketToRole = << >>
    /\ readySet = {}
    /\ out = << >>
    /\ last = Handled("init", 0, NoRole)
    /\ pre = Containers

\* io.on('connection'): a new socket, with an id never used before.
Connect ==
    /\ created < MaxSockets
    /\ created' = created + 1
    /\ sockets' = sockets \cup {created + 1}
    /\ out' = << >>
    /\ last' = Handled("connection", created + 1, NoRole)
    /\ UNCHANGED <<players, socketToRole, readySet>>
    /\ pre' = Containers

\* Variant of SelectRoleResult: the check players.has(role) is missing.
SelectRoleResultNoTaken(ps, s2r, s, role) ==
    IF ~Includes(FIXED_ROLES, role) THEN MsgInvalidRole
    ELSE IF s \in DOMAIN s2r THEN MsgAlreadyClaimed
    ELSE "ok"

\* Variant of SelectRoleResult: the check socketToRole.has(socket.id) is
\* missing.
SelectRoleResultNoAlready(ps, s2r, s, role) ==
    IF ~Includes(FIXED_ROLES, role) THEN MsgInvalidRole
    ELSE IF PlayersHas(ps, role) THEN MsgRoleTaken
    ELSE "ok"

\* Variant of SelectRoleResult: the socket is checked before the role.
SelectRoleResultSwapped(ps, s2r, s, role) ==
    IF ~Includes(FIXED_ROLES, role) THEN MsgInvalidRole
    ELSE IF s \in DOMAIN s2r THEN MsgAlreadyClaimed
    ELSE IF PlayersHas(ps, role) THEN MsgRoleTaken
    ELSE "ok"

\* socket.on('selectRole'): the outcome of its three checks, in order.
SelectRoleResult(ps, s2r, s, role) ==
    IF ~Includes(FIXED_ROLES, role) THEN MsgInvalidRole
    ELSE IF PlayersHas(ps, role) THEN MsgRoleTaken
    ELSE IF s \in DOMAIN s2r THEN MsgAlreadyClaimed
    ELSE "ok"

\* Variant of SelectRole: a refused request also broadcasts the roster.
SelectRoleBroadcastOnFail(s, role) ==
    /\ s \in sockets
    /\ last' = Handled("selectRole", s, role)
    /\ LET res == SelectRoleResult(players, socketToRole, s, role) IN
       IF ~Destructures(role)
       THEN /\ out' = << >>
            /\ UNCHANGED <<players, socketToRole>>
       ELSE IF res # "ok"
       THEN /\ out' = << Msg("roleAssigned", {s}, [success |-> FALSE, message |-> res]),
                         BroadcastPlayers(players, sockets) >>
            /\ UNCHANGED <<players, socketToRole>>
       ELSE /\ players' = PlayersSet(players, role, [socketId |-> s, role |-> role])
            /\ socketToRole' = MapSet(socketToRole, s, role)
            /\ out' = << Msg("roleAssigned", {s}, [success |-> TRUE, role |-> role]),
                         BroadcastPlayers(players', sockets) >>
    /\ UNCHANGED <<sockets, created, readySet>>
    /\ pre' = Containers

\* Variant of SelectRole: the roster is broadcast before players.set and
\* before the reply.
SelectRoleBroadcastFirst(s, role) ==
    /\ s \in sockets
    /\ last' = Handled("selectRole", s, role)
    /\ LET res == SelectRoleResult(players, socketToRole, s, role) IN
       IF ~Destructures(role)
       THEN /\ out' = << >>
            /\ UNCHANGED <<players, socketToRole>>
       ELSE IF res # "ok"
       THEN /\ out' = << Msg("roleAssigned", {s}, [success |-> FALSE, message |-> res]) >>
            /\ UNCHANGED <<players, socketToRole>>
       ELSE /\ players' = PlayersSet(players, role, [socketId |-> s, role |-> role])
            /\ socketToRole' = MapSet(socketToRole, s, role)
            /\ out' = << BroadcastPlayers(players, sockets),
                         Msg("roleAssigned", {s}, [success |-> TRUE, role |-> role]) >>
    /\ UNCHANGED <<sockets, created, readySet>>
    /\ pre' = Containers

\* socket.on('selectRole', ({ role }) => ...).  A payload that cannot be
\* destructured makes the handler throw before it emits or changes
\* anything; server.js does not catch the exception.  The model lets the
\* server go on after it: if the process stops instead, the behaviour is a
\* prefix of one of these.
SelectRole(s, role) ==
    /\ s \in sockets
    /\ last' = Handled("selectRole", s, role)
    /\ LET res == SelectRoleResult(players, socketToRole, s, role) IN
       IF ~Destructures(role)
       THEN /\ out' = << >>
            /\ UNCHANGED <<players, socketToRole>>
       ELSE IF res # "ok"
       THEN /\ out' = << Msg("roleAssigned", {s}, [success |-> FALSE, message |-> res]) >>
            /\ UNCHANGED <<players, socketToRole>>
       ELSE /\ players' = PlayersSet(players, role, [socketId |-> s, role |-> role])
            /\ socketToRole' = MapSet(socketToRole, s, role)
            /\ out' = << Msg("roleAssigned", {s}, [success |-> TRUE, role |-> role]),
                         BroadcastPlayers(players', sockets) >>
    /\ UNCHANGED <<sockets, created, readySet>>
    /\ pre' = Containers

\* Variant of OwnsRole: the owner of the role is not compared with the socket.
OwnsRoleAnySocket(ps, s, role) == PlayersHas(ps, role)

\* socket.on('playerReady'): the check that the role is online and belongs
\* to the socket.
OwnsRole(ps, s, role) ==
    /\ PlayersHas(ps, role)
    /\ PlayersGet(ps, role).socketId = s

\* Variant of PlayerReady: a role that is already ready is refused.
PlayerReadyRejectRepeat(s, role) ==
    /\ s \in sockets
    /\ last' = Handled("playerReady", s, role)
    /\ IF ~Destructures(role)
       THEN /\ out' = << >>
            /\ UNCHANGED readySet
       ELSE IF ~OwnsRole(players, s, role) \/ role \in readySet
       THEN /\ out' = << Msg("errorMsg", {s}, [message |-> MsgNotOwner]) >>
            /\ UNCHANGED readySet
       ELSE \E runs \in RunChoices(OnlineRoles(players), readySet \cup {role}) :
              LET added == readySet \cup {role}
                  online == OnlineRoles(players)
              IN /\ out' = << Msg("someoneReady", sockets \ {s}, [role |-> role]) >>
                             \o TryStartRollOut(online, added, runs, sockets)
                 /\ readySet' = TryStartRollReady(online, added)
    /\ UNCHANGED <<sockets, created, players, socketToRole>>
    /\ pre' = Containers

\* Variant of PlayerReady: someoneReady is sent with io.emit, to every
\* socket.
PlayerReadyEmitAll(s, role) ==
    /\ s \in sockets
    /\ last' = Handled("playerReady", s, role)
    /\ IF ~Destructures(role)
       THEN /\ out' = << >>
            /\ UNCHANGED readySet
       ELSE IF ~OwnsRole(players, s, role)
       THEN /\ out' = << Msg("errorMsg", {s}, [message |-> MsgNotOwner]) >>
            /\ UNCHANGED readySet
       ELSE \E runs \in RunChoices(OnlineRoles(players), readySet \cup {role}) :
              LET added == readySet \cup {role}
                  online == OnlineRoles(players)
              IN /\ out' = << Msg("someoneReady", sockets, [role |-> role]) >>
                             \o TryStartRollOut(online, added, runs, sockets)
                 /\ readySet' = TryStartRollReady(online, added)
    /\ UNCHANGED <<sockets, created, players, socketToRole>>
    /\ pre' = Containers

\* socket.on('playerReady', ({ role }) => ...).  As in selectRole, a
\* payload that cannot be destructured makes the handler throw first.
PlayerReady(s, role) ==
    /\ s \in sockets
    /\ last' = Handled("playerReady", s, role)
    /\ IF ~Destructures(role)
       THEN /\ out' = << >>
            /\ UNCHANGED readySet
       ELSE IF ~OwnsRole(players, s, role)
       THEN /\ out' = << Msg("errorMsg", {s}, [message |-> MsgNotOwner]) >>
            /\ UNCHANGED readySet
       ELSE \E runs \in RunChoices(OnlineRoles(players), readySet \cup {role}) :
              LET added == readySet \cup {role}
                  online == OnlineRoles(players)
              IN /\ out' = << Msg("someoneReady", sockets \ {s}, [role |-> role]) >>
                             \o TryStartRollOut(online, added, runs, sockets)
                 /\ readySet' = TryStartRollReady(online, added)
    /\ UNCHANGED <<sockets, created, players, socketToRole>>
    /\ pre' = Containers

\* Variant of Disconnect: socketToRole.delete(socket.id) is forgotten.
DisconnectKeepMapping(s) ==
    /\ s \in sockets
    /\ sockets' = sockets \ {s}
    /\ IF s \in DOMAIN socketToRole
       THEN LET role == socketToRole[s] IN
            /\ players' = PlayersDelete(players, role)
            /\ socketToRole' = socketToRole
            /\ readySet' = readySet \ {role}
            /\ out' = << BroadcastPlayers(players', sockets') >>
            /\ last' = Handled("disconnect", s, role)
       ELSE /\ out' = << >>
            /\ last' = Handled("disconnect", s, NoRole)
            /\ UNCHANGED <<players, socketToRole, readySet>>
    /\ UNCHANGED created
    /\ pre' = Containers

\* Variant of Disconnect: players.delete(role) is forgotten.
DisconnectKeepPlayers(s) ==
    /\ s \in sockets
    /\ sockets' = sockets \ {s}
    /\ IF s \in DOMAIN socketToRole
       THEN LET role == socketToRole[s] IN
            /\ players' = players
            /\ socketToRole' = MapDelete(socketToRole, s)
            /\ readySet' = readySet \ {role}
            /\ out' = << BroadcastPlayers(players', sockets') >>
            /\ last' = Handled("disconnect", s, role)
       ELSE /\ out' = << >>
            /\ last' = Handled("disconnect", s, NoRole)
            /\ UNCHANGED <<players, socketToRole, readySet>>
    /\ UNCHANGED created
    /\ pre' = Containers

\* Variant of Disconnect: broadcastPlayers() is called outside the if.
DisconnectAlwaysBroadcast(s) ==
    /\ s \in sockets
    /\ sockets' = sockets \ {s}
    /\ IF s \in DOMAIN socketToRole
       THEN LET role == socketToRole[s] IN
            /\ players' = PlayersDelete(players, role)
            /\ socketToRole' = MapDelete(socketToRole, s)
            /\ readySet' = readySet \ {role}
            /\ out' = << BroadcastPlayers(players', sockets') >>
            /\ last' = Handled("disconnect", s, role)
       ELSE /\ out' = << BroadcastPlayers(players, sockets') >>
            /\ last' = Handled("disconnect", s, NoRole)
            /\ UNCHANGED <<players, socketToRole, readySet>>
    /\ UNCHANGED created
    /\ pre' = Containers

\* Variant of Disconnect: readySet.delete(role) is forgotten.
DisconnectKeepReady(s) ==
    /\ s \in sockets
    /\ sockets' = sockets \ {s}
    /\ IF s \in DOMAIN socketToRole
       THEN LET role == socketToRole[s] IN
            /\ players' = PlayersDelete(players, role)
            /\ socketToRole' = MapDelete(socketToRole, s)
            /\ readySet' = readySet
            /\ out' = << BroadcastPlayers(players', sockets') >>
            /\ last' = Handled("disconnect", s, role)
       ELSE /\ out' = << >>
            /\ last' = Handled("disconnect", s, NoRole)
            /\ UNCHANGED <<players, socketToRole, readySet>>
    /\ UNCHANGED created
    /\ pre' = Containers

\* socket.on('disconnect'): socket.io has removed the socket from the
\* namespace when the handler runs, so io.emit reaches the other sockets.
Disconnect(s) ==
    /\ s \in sockets
    /\ sockets' = sockets \ {s}
    /\ IF s \in DOMAIN socketToRole
       THEN LET role == socketToRole[s] IN
            /\ players' = PlayersDelete(players, role)
            /\ socketToRole' = MapDelete(socketToRole, s)
            /\ readySet' = readySet \ {role}
            /\ out' = << BroadcastPlayers(players', sockets') >>
            /\ last' = Handled("disconnect", s, role)
       ELSE /\ out' = << >>
            /\ last' = Handled("disconnect", s, NoRole)
            /\ UNCHANGED <<players, socketToRole, readySet>>
    /\ UNCHANGED created
    /\ pre' = Containers

Next ==
    \/ Connect
    \/ \E s \in 1..MaxSockets, role \in RoleInputs : SelectRole(s, role)
    \/ \E s \in 1..MaxSockets, role \in RoleInputs : PlayerReady(s, role)
    \/ \E s \in 1..MaxSockets : Disconnect(s)

Spec == Init /\ [][Next]_vars

----------------------------------------------------------------------------
(* Vocabulary of the properties *)

FixedRoleSet == Range(FIXED_ROLES)

\* The roles of RoleAssignment (the keys of players).
AssignedRoles(ps) == { ps[i].role : i \in 1..Len(ps) }

\* Role r is assigned to socket s.
AssignedTo(ps, r, s) == \E i \in 1..Len(ps) : ps[i].role = r /\ ps[i].socketId = s

\* The positions of the messages of event e in a handler's output.
EventAt(o, e) == { i \in 1..Len(o) : o[i].event = e }

Emitted(o, e) == EventAt(o, e) # {}

\* The refusal of a selectRole of socket s, with message text m.
Refusal(s, m) == Msg("roleAssigned", {s}, [success |-> FALSE, message |-> m])

\* The last handler was a selectRole that carried a role: a ClaimRole.
ClaimRequest ==
    /\ last.op = "selectRole"
    /\ Destructures(last.role)

\* The last handler was a playerReady that carried a role: a SignalReady.
ReadySignal ==
    /\ last.op = "playerReady"
    /\ Destructures(last.role)

\* The last handler left players, socketToRole and readySet as they were.
ContainersUnchanged ==
    /\ players = pre.players
    /\ socketToRole = pre.socketToRole
    /\ readySet = pre.readySet

\* The last handler was a playerReady of the owner of the role.
ReadyByOwner ==
    /\ last.op = "playerReady"
    /\ AssignedTo(pre.players, last.role, last.socket)

\* The last handler was a selectRole, carrying a role, that fails one of
\* the three checks.
ClaimFails ==
    /\ ClaimRequest
    /\ \/ last.role \notin FixedRoleSet
       \/ last.role \in AssignedRoles(pre.players)
       \/ last.socket \in DOMAIN pre.socketToRole

----------------------------------------------------------------------------
(* C1..C10 *)

\* C1: role exclusivity.  In every reachable state players holds at most
\* one entry per role, the socket of every entry is connected, and no two
\* sockets are mapped to the same role by socketToRole, whose sockets are
\* connected too.
C1_RoleExclusivity ==
    /\ \A i, j \in 1..Len(players) :
          players[i].role = players[j].role => i = j
    /\ \A i \in 1..Len(players) : players[i].socketId \in sockets
    /\ \A s, t \in DOMAIN socketToRole :
          socketToRole[s] = socketToRole[t] => s = t
    /\ DOMAIN socketToRole \subseteq sockets

\* Two roles are owned and a third socket has just been refused a taken role.
C1_Witness ==
    /\ Len(players) >= 2
    /\ last.op = "selectRole"
    /\ out = << Refusal(last.socket, MsgRoleTaken) >>
    /\ last.socket \notin DOMAIN socketToRole

\* C2: the readiness barrier.  startRoll is emitted only by a playerReady
\* of the owner of the role, and such a playerReady for role r emits it if
\* and only if readySet with r added equals the set of online roles and
\* that set is not empty.
C2_BarrierIff ==
    /\ Emitted(out, "startRoll") =>
          /\ ReadyByOwner
          /\ AssignedRoles(pre.players) # {}
    /\ ReadyByOwner =>
          ( Emitted(out, "startRoll")
            <=> /\ pre.readySet \cup {last.role} = AssignedRoles(pre.players)
                /\ AssignedRoles(pre.players) # {} )

\* A roll started with at least two roles online, by the playerReady of the
\* last role that was not ready.
C2_Witness ==
    /\ ReadyByOwner
    /\ Emitted(out, "startRoll")
    /\ Len(pre.players) >= 2
    /\ last.role \notin pre.readySet

\* C3: after a barrier fired, readySet is empty and the handler emitted one
\* startRoll, sent to every connected socket, whose roundPoints has exactly
\* the roles online when it fired as keys, each with NumDice points in
\* 1..NumFaces.
C3_RoundComplete ==
    Emitted(out, "startRoll") =>
        /\ readySet = {}
        /\ Cardinality(EventAt(out, "startRoll")) = 1
        /\ \A i \in EventAt(out, "startRoll") :
              /\ out[i].to = pre.sockets
              /\ DOMAIN out[i].body.roundPoints = AssignedRoles(pre.players)
              /\ \A r \in AssignedRoles(pre.players) :
                    /\ Len(out[i].body.roundPoints[r]) = NumDice
                    /\ \A k \in 1..NumDice :
                          out[i].body.roundPoints[r][k] \in 1..NumFaces

\* A roll started for two online roles while a third socket, without a
\* role, was connected.
C3_Witness ==
    /\ Emitted(out, "startRoll")
    /\ Len(pre.players) = 2
    /\ Cardinality(pre.sockets) = 3

\* C4 as stated: every selectRole of a socket that holds a role is refused
\* with AlreadyClaimed, whatever role it asks for.
C4_Original ==
    (ClaimRequest /\ last.socket \in DOMAIN pre.socketToRole) =>
        out = << Refusal(last.socket, MsgAlreadyClaimed) >>

\* C4 (amended): every selectRole for a role, of a socket that holds a
\* role, is refused and changes no container; the refusal is AlreadyClaimed exactly when the
\* requested role is in the fixed set and not assigned, RoleTaken when it
\* is assigned (the socket's own role included) and InvalidRole when it is
\* outside the fixed set.
C4_SecondClaimRefused ==
    (ClaimRequest /\ last.socket \in DOMAIN pre.socketToRole) =>
        /\ ContainersUnchanged
        /\ Len(out) = 1
        /\ out[1].event = "roleAssigned"
        /\ out[1].to = {last.socket}
        /\ out[1].body.success = FALSE
        /\ out[1].body.message =
             IF last.role \notin FixedRoleSet THEN MsgInvalidRole
             ELSE IF last.role \in AssignedRoles(pre.players) THEN MsgRoleTaken
             ELSE MsgAlreadyClaimed

\* A socket that holds a role asked for a free role of the fixed set and
\* was refused with AlreadyClaimed.
C4_Witness ==
    /\ last.op = "selectRole"
    /\ last.socket \in DOMAIN pre.socketToRole
    /\ last.role \in FixedRoleSet \ AssignedRoles(pre.players)
    /\ out = << Refusal(last.socket, MsgAlreadyClaimed) >>

\* C5: a selectRole for a role reports the first failing check in the order
\* InvalidRole, RoleTaken, AlreadyClaimed, and succeeds when none fails.
C5_CheckOrder ==
    ClaimRequest =>
      LET s == last.socket
          role == last.role
      IN IF role \notin FixedRoleSet
         THEN out = << Refusal(s, MsgInvalidRole) >>
         ELSE IF role \in AssignedRoles(pre.players)
         THEN out = << Refusal(s, MsgRoleTaken) >>
         ELSE IF s \in DOMAIN pre.socketToRole
         THEN out = << Refusal(s, MsgAlreadyClaimed) >>
         ELSE /\ out[1] = Msg("roleAssigned", {s}, [success |-> TRUE, role |-> role])
              /\ AssignedTo(players, role, s)
              /\ s \in DOMAIN socketToRole
              /\ socketToRole[s] = role

\* A socket that holds a role asked for a role another socket holds and was
\* refused with RoleTaken.
C5_Witness ==
    /\ last.op = "selectRole"
    /\ last.socket \in DOMAIN pre.socketToRole
    /\ pre.socketToRole[last.socket] # last.role
    /\ out = << Refusal(last.socket, MsgRoleTaken) >>

\* C6: across every handler run, a socket mapped to a role stays mapped to
\* that role unless the handler is its own disconnect, which unmaps it; a
\* socket never owns more than one entry of players; and a socket that
\* disconnected is never connected or mapped again.
C6_OneRolePerConnection ==
    \A s \in 1..MaxSockets :
      /\ s \in DOMAIN pre.socketToRole =>
           \/ /\ s \in DOMAIN socketToRole
              /\ socketToRole[s] = pre.socketToRole[s]
              /\ s \in sockets
           \/ /\ s \notin DOMAIN socketToRole
              /\ s \notin sockets
              /\ last = Handled("disconnect", s, pre.socketToRole[s])
      /\ (s \in 1..pre.created /\ s \notin pre.sockets) =>
           /\ s \notin sockets
           /\ s \notin DOMAIN socketToRole
      /\ Cardinality({ i \in 1..Len(players) : players[i].socketId = s }) <= 1

\* A socket keeps its role after being refused a second one, while another
\* socket has disconnected.
C6_Witness ==
    /\ last.op = "selectRole"
    /\ out = << Refusal(last.socket, MsgAlreadyClaimed) >>
    /\ socketToRole[last.socket] = pre.socketToRole[last.socket]
    /\ \E t \in 1..created : t \notin sockets

\* C7: the disconnect of the socket that owns a ready role removes the role
\* from players, socketToRole and readySet, leaves the rest of readySet as
\* it is and emits the roster only: no startRoll, also when every remaining
\* online role is ready.
C7_DisconnectNoRetrigger ==
    ( /\ last.op = "disconnect"
      /\ last.socket \in DOMAIN pre.socketToRole
      /\ pre.socketToRole[last.socket] \in pre.readySet ) =>
      LET s == last.socket
          role == pre.socketToRole[s]
      IN /\ role \notin AssignedRoles(players)
         /\ AssignedRoles(players) = AssignedRoles(pre.players) \ {role}
         /\ s \notin DOMAIN socketToRole
         /\ readySet = pre.readySet \ {role}
         /\ ~Emitted(out, "startRoll")
         /\ Len(out) = 1
         /\ out[1].event = "playersUpdate"

\* The owner of a ready role disconnected and left a non-empty set of
\* online roles that are all ready, and no roll started.
C7_Witness ==
    /\ last.op = "disconnect"
    /\ last.role \in pre.readySet
    /\ players # << >>
    /\ readySet = AssignedRoles(players)
    /\ ~Emitted(out, "startRoll")

\* C8: a playerReady for a role that is not assigned to the calling socket
\* emits one errorMsg (NotOwner) to the caller only and changes no
\* container.
C8_NotOwnerNoEffect ==
    (ReadySignal /\ ~AssignedTo(pre.players, last.role, last.socket)) =>
      /\ out = << Msg("errorMsg", {last.socket}, [message |-> MsgNotOwner]) >>
      /\ ContainersUnchanged

\* A socket signalled ready for a role that another socket holds, and was
\* answered with errorMsg while that role is still not ready.
C8_Witness ==
    /\ last.op = "playerReady"
    /\ last.role \in AssignedRoles(pre.players)
    /\ ~AssignedTo(pre.players, last.role, last.socket)
    /\ last.role \notin readySet
    /\ out = << Msg("errorMsg", {last.socket}, [message |-> MsgNotOwner]) >>

\* C9: a selectRole that fails a check changes no container and emits one
\* message only, the refusal, to the requesting socket only.
C9_FailedClaimNoEffect ==
    ClaimFails =>
      /\ ContainersUnchanged
      /\ Len(out) = 1
      /\ out[1].event = "roleAssigned"
      /\ out[1].to = {last.socket}
      /\ out[1].body.success = FALSE

\* A selectRole was refused while other sockets were connected and a role
\* was ready.
C9_Witness ==
    /\ ClaimFails
    /\ Len(out) = 1
    /\ Cardinality(sockets) >= 2
    /\ readySet # {}

\* C10 as stated: a playerReady of the owner for a role already in readySet
\* changes no container, emits no errorMsg and starts no roll.
C10_Original ==
    (ReadyByOwner /\ last.role \in pre.readySet) =>
      /\ ContainersUnchanged
      /\ ~Emitted(out, "errorMsg")
      /\ ~Emitted(out, "startRoll")

\* C10 (amended): a playerReady of the owner for a role already in readySet
\* emits no errorMsg and changes neither players nor socketToRole; it leaves
\* readySet unchanged and starts no roll unless every online role is
\* already ready (a state a disconnect leaves), in which case it starts the
\* roll and clears readySet.
C10_ResignalIdempotent ==
    (ReadyByOwner /\ last.role \in pre.readySet) =>
      /\ players = pre.players
      /\ socketToRole = pre.socketToRole
      /\ ~Emitted(out, "errorMsg")
      /\ IF pre.readySet = AssignedRoles(pre.players)
         THEN Emitted(out, "startRoll") /\ readySet = {}
         ELSE ~Emitted(out, "startRoll") /\ readySet = pre.readySet

\* The owner of a ready role signalled ready again while another online
\* role was not ready: the role is still ready and no roll started.
C10_Witness ==
    /\ ReadyByOwner
    /\ last.role \in pre.readySet
    /\ pre.readySet # AssignedRoles(pre.players)
    /\ readySet = pre.readySet
    /\ ~Emitted(out, "startRoll")

----------------------------------------------------------------------------
(* C11..C20 *)

\* The last handler was a playerReady of the owner of the role, and the
\* handler that runs next is the same socket's playerReady for that role.
SignalsTwice ==
    /\ ReadyByOwner
    /\ last' = last

\* The role of the last handler was the only online role when that handler
\* started.
SoleOnline == AssignedRoles(pre.players) = {last.role}

\* An online role other than the one of the last handler was not ready
\* when that handler started.
OtherNotReady ==
    \E r \in AssignedRoles(pre.players) \ {last.role} : r \notin pre.readySet

\* C11 as stated: when a connection signals ready twice for its role A,
\* then if A is the sole online role the first signal starts the roll and
\* the second is a no-op (no second startRoll, containers unchanged), and
\* if another online role is not ready neither signal starts a roll and
\* the second changes nothing.
C11_Original ==
    [][ SignalsTwice =>
          /\ SoleOnline =>
               /\ Emitted(out, "startRoll")
               /\ ~Emitted(out', "startRoll")
               /\ UNCHANGED <<players, socketToRole, readySet>>
          /\ OtherNotReady =>
               /\ ~Emitted(out, "startRoll")
               /\ ~Emitted(out', "startRoll")
               /\ UNCHANGED <<players, socketToRole, readySet>>
      ]_vars

\* C11 (amended): when a connection signals ready twice for its role A,
\* then if A is the sole online role each of the two signals starts a roll
\* (readySet is empty after each), and if another online role is not ready
\* neither signal starts a roll and the second changes nothing.
C11_SignalTwice ==
    [][ SignalsTwice =>
          /\ SoleOnline =>
               /\ Emitted(out, "startRoll")
               /\ readySet = {}
               /\ Cardinality(EventAt(out', "startRoll")) = 1
               /\ readySet' = {}
               /\ UNCHANGED <<players, socketToRole>>
          /\ OtherNotReady =>
               /\ ~Emitted(out, "startRoll")
               /\ ~Emitted(out', "startRoll")
               /\ UNCHANGED <<players, socketToRole, readySet>>
      ]_vars

\* With two roles online, the owner of a ready role has signalled ready
\* again while the other role is not ready: nothing changed, no roll.
C11_Witness ==
    /\ ReadyByOwner
    /\ last.role \in pre.readySet
    /\ Len(players) = 2
    /\ OtherNotReady
    /\ ContainersUnchanged
    /\ out = << Msg("someoneReady", sockets \ {last.socket}, [role |-> last.role]) >>

\* The scenario of C12: roles A and B, connections 1 and 2, and the
\* containers after each of its steps.
ScenA == FIXED_ROLES[1]
ScenB == FIXED_ROLES[2]

ScenEmpty == [players |-> << >>, socketToRole |-> << >>, readySet |-> {}]

ScenOne ==
    [players |-> << [socketId |-> 1, role |-> ScenA] >>,
     socketToRole |-> (1 :> ScenA),
     readySet |-> {}]

ScenTwo ==
    [players |-> << [socketId |-> 1, role |-> ScenA], [socketId |-> 2, role |-> ScenB] >>,
     socketToRole |-> (1 :> ScenA) @@ (2 :> ScenB),
     readySet |-> {}]

ScenTwoReadyA == [ScenTwo EXCEPT !.readySet = {ScenA}]

\* The last handler started in the containers c, with connections 1 and 2
\* connected, and was the handler h.
ScenStep(c, h) ==
    /\ pre.players = c.players
    /\ pre.socketToRole = c.socketToRole
    /\ pre.readySet = c.readySet
    /\ {1, 2} \subseteq pre.sockets
    /\ last = h

\* The containers are c.
ScenNow(c) ==
    /\ players = c.players
    /\ socketToRole = c.socketToRole
    /\ readySet = c.readySet

\* C12: the scenario.  Each step starts in the containers the step before
\* it leaves: 1 claims A (granted, roster [A]); 2 claims A (RoleTaken,
\* nothing changes); 2 claims B (granted, roster [A, B]); 1 signals ready
\* for A (no startRoll, readySet = {A}); 2 signals ready for B (one
\* startRoll with points for exactly A and B, readySet empty).
C12_Scenario ==
    /\ ScenStep(ScenEmpty, Handled("selectRole", 1, ScenA)) =>
          /\ ScenNow(ScenOne)
          /\ out = << Msg("roleAssigned", {1}, [success |-> TRUE, role |-> ScenA]),
                      Msg("playersUpdate", sockets, << [role |-> ScenA] >>) >>
    /\ ScenStep(ScenOne, Handled("selectRole", 2, ScenA)) =>
          /\ ScenNow(ScenOne)
          /\ out = << Refusal(2, MsgRoleTaken) >>
    /\ ScenStep(ScenOne, Handled("selectRole", 2, ScenB)) =>
          /\ ScenNow(ScenTwo)
          /\ out = << Msg("roleAssigned", {2}, [success |-> TRUE, role |-> ScenB]),
                      Msg("playersUpdate", sockets,
                          << [role |-> ScenA], [role |-> ScenB] >>) >>
    /\ ScenStep(ScenTwo, Handled("playerReady", 1, ScenA)) =>
          /\ ScenNow(ScenTwoReadyA)
          /\ out = << Msg("someoneReady", sockets \ {1}, [role |-> ScenA]) >>
    /\ ScenStep(ScenTwoReadyA, Handled("playerReady", 2, ScenB)) =>
          /\ ScenNow(ScenTwo)
          /\ Len(out) = 2
          /\ out[1] = Msg("someoneReady", sockets \ {2}, [role |-> ScenB])
          /\ out[2].event = "startRoll"
          /\ out[2].to = sockets
          /\ DOMAIN out[2].body.roundPoints = {ScenA, ScenB}

\* The last step of the scenario has run, with no other connection than 1
\* and 2 ever made: the roll started for A and B.
C12_Witness ==
    /\ ScenStep(ScenTwoReadyA, Handled("playerReady", 2, ScenB))
    /\ created = 2
    /\ Emitted(out, "startRoll")
    /\ readySet = {}

\* The last handler was the disconnect of a socket that held a role.
OwnerLeft ==
    /\ last.op = "disconnect"
    /\ last.socket \in DOMAIN pre.socketToRole

\* The last handler was a selectRole that passes the three checks.
ClaimPasses ==
    /\ last.op = "selectRole"
    /\ last.role \in FixedRoleSet \ AssignedRoles(pre.players)
    /\ last.socket \notin DOMAIN pre.socketToRole

\* C13: a role freed by disconnect is claimable again.  After the owner of
\* role r disconnects, ready or not, r is in neither players nor readySet
\* and the roster broadcast to the remaining sockets does not list r; and a
\* selectRole for a role of the fixed set that is not in players, by a
\* socket that holds no role, is granted.
C13_FreedRoleClaimable ==
    /\ OwnerLeft =>
         LET r == pre.socketToRole[last.socket]
         IN /\ r \notin AssignedRoles(players)
            /\ r \notin readySet
            /\ Len(out) = 1
            /\ out[1].event = "playersUpdate"
            /\ out[1].to = sockets
            /\ \A i \in 1..Len(out[1].body) : out[1].body[i].role # r
    /\ ClaimPasses =>
         /\ AssignedTo(players, last.role, last.socket)
         /\ socketToRole[last.socket] = last.role
         /\ out[1] = Msg("roleAssigned", {last.socket},
                         [success |-> TRUE, role |-> last.role])

\* The owner of a ready role has disconnected while a connected socket
\* holds no role: the role is free for that socket to claim.
C13_Witness ==
    /\ OwnerLeft
    /\ pre.socketToRole[last.socket] \in pre.readySet
    /\ \E s \in sockets : s \notin DOMAIN socketToRole
    /\ last.role \notin AssignedRoles(players)

\* C14: players and socketToRole are inverses of each other in every
\* reachable state, and a handler changes both or neither.
C14_InverseMaps ==
    /\ \A r \in FixedRoleSet, c \in 1..MaxSockets :
          AssignedTo(players, r, c) <=> (c \in DOMAIN socketToRole /\ socketToRole[c] = r)
    /\ Len(players) = Cardinality(DOMAIN socketToRole)
    /\ (players # pre.players) <=> (socketToRole # pre.socketToRole)

\* Two sockets hold roles after a third, which held one, has disconnected.
C14_Witness ==
    /\ OwnerLeft
    /\ Len(players) = 2
    /\ Cardinality(DOMAIN socketToRole) = 2

\* C15: readySet is a subset of the assigned roles in every reachable
\* state; a role enters it only by a playerReady of its owner, leaves it
\* only by the disconnect of its owner or by the start of a roll, and a
\* role that has just been granted is not ready.
C15_ReadySubset ==
    /\ readySet \subseteq AssignedRoles(players)
    /\ readySet \ pre.readySet # {} =>
          /\ ReadyByOwner
          /\ readySet \ pre.readySet = {last.role}
    /\ pre.readySet \ readySet # {} =>
          \/ OwnerLeft /\ pre.readySet \ readySet = {last.role}
          \/ ReadyByOwner /\ Emitted(out, "startRoll") /\ readySet = {}
    /\ (ClaimPasses /\ players # pre.players) => last.role \notin readySet

\* A role has been granted while another role is ready and a socket has
\* disconnected before.
C15_Witness ==
    /\ ClaimPasses
    /\ AssignedTo(players, last.role, last.socket)
    /\ readySet # {}
    /\ \E t \in 1..created : t \notin sockets

\* C16: the add to readySet and the barrier evaluation of an accepted
\* playerReady are one step.  Its whole effect is that of the add followed
\* by the check on the same players: players, socketToRole and the
\* connected sockets are as when the handler started, exactly one
\* startRoll is emitted when the add completes the all-ready condition and
\* none otherwise, and readySet is empty in the first case and has gained
\* the role in the second.
C16_AtomicBarrier ==
    ReadyByOwner =>
      LET added == pre.readySet \cup {last.role}
          complete == added = AssignedRoles(pre.players)
      IN /\ players = pre.players
         /\ socketToRole = pre.socketToRole
         /\ sockets = pre.sockets
         /\ Cardinality(EventAt(out, "startRoll")) = IF complete THEN 1 ELSE 0
         /\ readySet = IF complete THEN {} ELSE added
         /\ \A i \in EventAt(out, "startRoll") :
               DOMAIN out[i].body.roundPoints = AssignedRoles(players)

\* The third of three online roles became ready and one roll started.
C16_Witness ==
    /\ ReadyByOwner
    /\ Len(pre.players) = 3
    /\ Cardinality(pre.readySet) = 2
    /\ Cardinality(EventAt(out, "startRoll")) = 1

\* C17: a granted selectRole emits the reply to the requester first and the
\* roster broadcast second, and the roster lists the granted role.
C17_ReplyBeforeRoster ==
    ClaimPasses =>
      /\ Len(out) = 2
      /\ out[1] = Msg("roleAssigned", {last.socket},
                      [success |-> TRUE, role |-> last.role])
      /\ out[2].event = "playersUpdate"
      /\ out[2].to = sockets
      /\ \E i \in 1..Len(out[2].body) : out[2].body[i].role = last.role

\* The third role has been granted: the roster of the broadcast has three
\* roles.
C17_Witness ==
    /\ ClaimPasses
    /\ Len(out) = 2
    /\ Len(out[2].body) = 3

\* The roster of players, as broadcastPlayers sends it.
Roster(ps) == [i \in 1..Len(ps) |-> [role |-> ps[i].role]]

\* C18: playersUpdate is emitted exactly by the handlers that change
\* players, which are the granted selectRole and the disconnect of a socket
\* that held a role; it is emitted once, to every connected socket, with
\* the roles of players at that moment.  A refused selectRole, a
\* playerReady and the disconnect of a socket without a role emit none, and
\* the last changes no container and emits nothing.
C18_RosterTracksChanges ==
    /\ Emitted(out, "playersUpdate") <=> players # pre.players
    /\ players # pre.players <=> (ClaimPasses \/ OwnerLeft)
    /\ Cardinality(EventAt(out, "playersUpdate")) <= 1
    /\ \A i \in EventAt(out, "playersUpdate") :
          /\ out[i].body = Roster(players)
          /\ out[i].to = sockets
    /\ (ClaimFails \/ last.op = "playerReady") => ~Emitted(out, "playersUpdate")
    /\ (last.op = "disconnect" /\ ~OwnerLeft) =>
          /\ out = << >>
          /\ ContainersUnchanged

\* A socket without a role has disconnected while two roles are online:
\* nothing was emitted.
C18_Witness ==
    /\ last.op = "disconnect"
    /\ ~OwnerLeft
    /\ Len(players) = 2
    /\ out = << >>

\* C19: an accepted playerReady emits one someoneReady, with the role, to
\* every connected socket but the signaler, as its first message, so before
\* the startRoll it may emit; no other handler emits someoneReady.
C19_SomeoneReady ==
    /\ ReadyByOwner =>
          /\ EventAt(out, "someoneReady") = {1}
          /\ out[1] = Msg("someoneReady", sockets \ {last.socket}, [role |-> last.role])
          /\ last.socket \notin out[1].to
          /\ \A j \in EventAt(out, "startRoll") : j > 1
    /\ Emitted(out, "someoneReady") => ReadyByOwner

\* With three sockets connected, a playerReady started the roll: its
\* someoneReady went to the two other sockets, before the startRoll.
C19_Witness ==
    /\ ReadyByOwner
    /\ Cardinality(sockets) = 3
    /\ Cardinality(out[1].to) = 2
    /\ EventAt(out, "startRoll") = {2}

\* Some role is online and every online role is ready.
AllReadyUnfired(ps, rs) == ps # << >> /\ AssignedRoles(ps) \subseteq rs

\* C20: a handler that leaves every online role ready, having started with
\* some online role not ready or with no role online, is the disconnect of
\* a socket that held a role; and after every accepted playerReady some
\* online role is not ready.
C20_OnlyDisconnectEnters ==
    /\ ( /\ AllReadyUnfired(players, readySet)
         /\ ~AllReadyUnfired(pre.players, pre.readySet) ) => OwnerLeft
    /\ ReadyByOwner => \E r \in AssignedRoles(players) : r \notin readySet

\* The owner of the only role that was not ready has disconnected: every
\* remaining online role is ready and no roll has started.
C20_Witness ==
    /\ OwnerLeft
    /\ last.role \notin pre.readySet
    /\ AllReadyUnfired(players, readySet)
    /\ ~AllReadyUnfired(pre.players, pre.readySet)

====
